---------------------------- MODULE Spec2Model ----------------------------
(***************************************************************************)
(* A state-machine model of the FMultiGrid facade (src/unnamed/part_001):  *)
(* construction, set_bc, the coefficient setters, solve,                   *)
(* compute_residual and get_grad_phi, together with the transition         *)
(* distances ABecCoeff::set_coeffs hands to the MGT_Solver kernel.         *)
(*                                                                         *)
(* Spec runs every member function from an unconstructed object; SpecXa    *)
(* starts from constructed objects over more geometries and runs the       *)
(* calls that lead to set_coeffs. SpecParticles calls the kernels of       *)
(* AMReX_ParticleTransformation.H (gather, scatter, filter, filter and     *)
(* transform) on small particle tiles.                                     *)
(*                                                                         *)
(* A BL_ASSERT that fails, like BoxLib::Abort, ends the process: status    *)
(* becomes "aborted" and no further call is made. Undefined behaviour (a   *)
(* null m_mgt_solver dereferenced, an element read past the end) either    *)
(* ends the process ("crashed", "aborted") or lets the call go on.         *)
(*                                                                         *)
(* Reals are scaled integers: a cell size of 0.05 is 40, 0.1 is 80, so     *)
(* that 0.5 * x is exact on every value the model draws.                   *)
(* Pointers are 0 (null) or 1 (the address of the caller's argument).      *)
(***************************************************************************)
EXTENDS Integers, Sequences, FiniteSets, TLC

(* ------------------------------ bounds -------------------------------- *)
MaxLevels == 2
MaxBase == 1
MaxRatio == 2
MaxReal == 1
MaxNp == 3
MaxStart == 1
MaxMask == 2

(* ------------------------- program constants -------------------------- *)
BL_SPACEDIM == 2

invalid_eq == 0
const_gravity_eq == 1
gravity_eq == 2
general_eq == 3

(* ------------------------------ inputs -------------------------------- *)
Dims == 1..BL_SPACEDIM
\* Level-0 cell sizes, and hierarchies in which each level halves the cell
\* of the level below it.
CellSizes == {<<80, 80>>, <<40, 40>>, <<80, 40>>}
Pow2(k) == IF k = 0 THEN 1 ELSE IF k = 1 THEN 2 ELSE IF k = 2 THEN 4 ELSE 8
Refined(c, l) == [d \in 1..BL_SPACEDIM |-> c[d] \div Pow2(l - 1)]
Hierarchies(cells) ==
    {[l \in 1..n |-> Refined(c, l)] : n \in 0..MaxLevels, c \in cells}
\* the geometries the constructors are called with
Geoms == Hierarchies({<<80, 40>>})
\* the geometries the transition distances are computed on
GeomsXa == Hierarchies(CellSizes)
BaseLevels == 0..MaxBase
\* a ratio component is 0 (unset) or a refinement factor of at least 2
IntVects == [Dims -> {0} \cup 2..MaxRatio]
RealVals == 1..MaxReal
Sizes == 0..MaxLevels
NDims == {BL_SPACEDIM, BL_SPACEDIM + 1}

TheZeroVector == [d \in Dims |-> 0]

VARIABLES
    status,        \* "new" | "ok" | "aborted" | "crashed"
    m_nlevels,
    m_baselevel,
    m_crse_ratio,
    m_geom,        \* per level, the cell size of that level's Geometry
    m_bc,          \* FMultiGrid::Boundary
    m_coeff,       \* FMultiGrid::ABecCoeff
    m_mgt_solver,  \* 0, or the number of the MGT_Solver constructed
    m_bndry,       \* 0, or the number of the MacBndry constructed
    nbuilt,        \* how many MGT_Solver objects were constructed so far
    kernel,        \* what the MGT_Solver and the MacBndry have been handed
    n_set_bc,      \* how many set_bc calls were made
    last,          \* the call made last and how it ended
    tile,          \* the particle tiles src, tmp and dst
    pstage,        \* "off" | "start" | "gathered" | "done" | "crashed"
    plast,         \* the particle transformation called last
    bt_stack,      \* BLBackTrace::bt_stack, bottom first
    bt_live,       \* the BLBTer objects alive, in the order constructed
    bt_status,     \* "off" | "on" | "aborted"
    bt_last        \* the BLBTer call made last and the stack before it

vars == <<status, m_nlevels, m_baselevel, m_crse_ratio, m_geom, m_bc, m_coeff,
          m_mgt_solver, m_bndry, nbuilt, kernel, n_set_bc, last,
          tile, pstage, plast, bt_stack, bt_live, bt_status, bt_last>>

fmg == <<status, m_nlevels, m_baselevel, m_crse_ratio, m_geom, m_bc, m_coeff,
         m_mgt_solver, m_bndry, nbuilt, kernel, n_set_bc, last>>
particles == <<tile, pstage, plast>>
backtrace == <<bt_stack, bt_live, bt_status, bt_last>>

config == <<m_nlevels, m_baselevel, m_crse_ratio, m_geom>>
engine == <<m_mgt_solver, m_bndry, nbuilt, kernel>>

(* ----------------- declarations of FMultiGrid.H ----------------------- *)
\* Boundary(): nothing recorded yet.
Boundary0 == [initilized |-> FALSE, mg_bc |-> 0, crse_phi |-> 0, phi |-> 0]

\* Boundary(mg_bc, crse_phi, phi)
Boundary(mg_bc, crse_phi, phi) ==
    [initilized |-> TRUE, mg_bc |-> mg_bc, crse_phi |-> crse_phi, phi |-> phi]

\* ABecCoeff(): no variant selected, no sub-value set.
ABecCoeff0 ==
    [eq_type |-> invalid_eq,
     alpha_set |-> FALSE, a_set |-> FALSE, beta_set |-> FALSE, b_set |-> FALSE,
     alpha |-> 0, beta |-> 0, a |-> 0, b |-> <<0, 0>>]

Kernel0 ==
    [bndry |-> "none", form |-> "none", xa |-> <<>>, xb |-> <<>>,
     alpha |-> 0, beta |-> 0, a |-> 0, b |-> <<0, 0>>, ran |-> "none"]

NoCall ==
    [op |-> "none", accepted |-> TRUE, built |-> FALSE, invoked |-> "none",
     ub |-> "none", pre_bc |-> Boundary0, pre_coeff |-> ABecCoeff0,
     pre_handle |-> 0, pre_ran |-> "none", wrote |-> {}]

\* The caller-owned fields whose contents a method of MGT_Solver writes:
\* solve writes the solution, compute_residual the residual, get_fluxes the
\* gradient.
kernel_writes(method) ==
    CASE method = "solve" -> {"phi"}
      [] method = "compute_residual" -> {"res"}
      [] method = "get_fluxes" -> {"grad_phi"}
      [] OTHER -> {}

\* The caller-owned fields whose contents the Copy helpers write: they
\* store the address of each element of src and write to none of them.
Copy_writes ==
    {}

\* The record of a call: op, whether it returned normally, whether it
\* constructed the solver handle, which kernel method it invoked, which
\* undefined behaviour it ran into, the state it started from, and the
\* caller-owned fields whose contents it changed.
Call(op, accepted, built, invoked, ub) ==
    [op |-> op, accepted |-> accepted, built |-> built, invoked |-> invoked,
     ub |-> ub, pre_bc |-> m_bc, pre_coeff |-> m_coeff,
     pre_handle |-> m_mgt_solver, pre_ran |-> kernel.ran,
     wrote |-> Copy_writes \cup kernel_writes(invoked)]

\* A failed BL_ASSERT or BoxLib::Abort: the process ends, nothing is changed.
Abort(op) ==
    /\ status' = "aborted"
    /\ last' = Call(op, FALSE, FALSE, "none", "none")
    /\ UNCHANGED <<config, m_bc, m_coeff, engine>>

\* No particle tile exists and no particle transformation is called.
ParticlesOff ==
    /\ tile = <<>>
    /\ pstage = "off"
    /\ plast = <<>>

\* No BLBTer is constructed and the backtrace stack stays empty.
BacktraceOff ==
    /\ bt_stack = <<>>
    /\ bt_live = <<>>
    /\ bt_status = "off"
    /\ bt_last = <<>>

Init ==
    /\ ParticlesOff
    /\ BacktraceOff
    /\ status = "new"
    /\ m_nlevels = 0
    /\ m_baselevel = 0
    /\ m_crse_ratio = TheZeroVector
    /\ m_geom = <<>>
    /\ m_bc = Boundary0
    /\ m_coeff = ABecCoeff0
    /\ m_mgt_solver = 0
    /\ m_bndry = 0
    /\ nbuilt = 0
    /\ kernel = Kernel0
    /\ n_set_bc = 0
    /\ last = NoCall

(* --------------------------- constructors ----------------------------- *)
\* the check with >= for >
crse_ratio_ok_geq(baselevel, crse_ratio) ==
    ~(baselevel >= 0 /\ crse_ratio = TheZeroVector)

\* the check every constructor ends with; FALSE is BoxLib::Abort
crse_ratio_ok(baselevel, crse_ratio) ==
    ~(baselevel > 0 /\ crse_ratio = TheZeroVector)

Construct(op, nlevels, geom, baselevel, crse_ratio) ==
    /\ status = "new"
    /\ UNCHANGED <<m_bc, m_coeff, engine, n_set_bc, particles, backtrace>>
    /\ m_nlevels' = nlevels
    /\ m_baselevel' = baselevel
    /\ m_crse_ratio' = crse_ratio
    /\ m_geom' = geom
    /\ IF crse_ratio_ok(baselevel, crse_ratio)
       THEN /\ status' = "ok"
            /\ last' = Call(op, TRUE, FALSE, "none", "none")
       ELSE /\ status' = "aborted"
            /\ last' = Call(op, FALSE, FALSE, "none", "none")

\* FMultiGrid (const Geometry&, int, IntVect)
FMultiGrid_Geometry ==
    \E geom \in Geoms, bl \in BaseLevels, r \in IntVects :
        /\ Len(geom) = 1
        /\ Construct("FMultiGrid_Geometry", 1, <<geom[1]>>, bl, r)

\* FMultiGrid (const std::vector<Geometry>&, int, IntVect)
FMultiGrid_vector ==
    \E geom \in Geoms, bl \in BaseLevels, r \in IntVects :
        Construct("FMultiGrid_vector", Len(geom), geom, bl, r)

\* FMultiGrid (const PArray<Geometry>&, int, IntVect)
FMultiGrid_PArray ==
    \E geom \in Geoms, bl \in BaseLevels, r \in IntVects :
        Construct("FMultiGrid_PArray", Len(geom),
                  [ilev \in 1..Len(geom) |-> geom[ilev]], bl, r)

CtorOps == {"FMultiGrid_Geometry", "FMultiGrid_vector", "FMultiGrid_PArray"}

(* ------------------------------ set_bc -------------------------------- *)
\* the assertion left out
set_bc_pre_none ==
    TRUE

\* BL_ASSERT(!m_bc.initilized)
set_bc_pre ==
    ~m_bc.initilized

\* the assertion left out
set_bc_crse_pre_none ==
    TRUE

\* BL_ASSERT(m_crse_ratio != IntVect::TheZeroVector())
set_bc_crse_pre ==
    m_crse_ratio # TheZeroVector

SetBc(op, pre, bc) ==
    /\ status = "ok"
    /\ UNCHANGED <<particles, backtrace>>
    /\ n_set_bc' = n_set_bc + 1
    /\ IF pre
       THEN /\ m_bc' = bc
            /\ last' = Call(op, TRUE, FALSE, "none", "none")
            /\ UNCHANGED <<status, config, m_coeff, engine>>
       ELSE Abort(op)

\* set_bc (int* mg_bc)
set_bc_codes ==
    SetBc("set_bc_codes", set_bc_pre, Boundary(1, 0, 0))

\* the field recorded as the coarse field instead of the fine field
set_bc_fine_as_crse ==
    SetBc("set_bc_fine", set_bc_pre, Boundary(1, 1, 0))

\* set_bc (int* mg_bc, MultiFab& phi)
set_bc_fine ==
    SetBc("set_bc_fine", set_bc_pre, Boundary(1, 0, 1))

\* set_bc (int* mg_bc, MultiFab& crse_phi, MultiFab& phi)
set_bc_crse_fine ==
    SetBc("set_bc_crse_fine", set_bc_crse_pre /\ set_bc_pre, Boundary(1, 1, 1))

SetBcOps == {"set_bc_codes", "set_bc_fine", "set_bc_crse_fine"}

(* ------------------------ coefficient setters ------------------------- *)
\* the assertion left out
gravity_compatible_any ==
    TRUE

\* BL_ASSERT(m_coeff.eq_type == invalid_eq)
gravity_compatible ==
    m_coeff.eq_type = invalid_eq

\* the assertion left out
general_compatible_any ==
    TRUE

\* BL_ASSERT(m_coeff.eq_type == invalid_eq || m_coeff.eq_type == general_eq)
general_compatible ==
    m_coeff.eq_type = invalid_eq \/ m_coeff.eq_type = general_eq

\* BL_ASSERT(!m_coeff.alpha_set)
alpha_unset ==
    ~m_coeff.alpha_set

\* the assertion left out
a_unset_none ==
    TRUE

\* BL_ASSERT(!m_coeff.a_set)
a_unset ==
    ~m_coeff.a_set

\* the assertion left out
beta_unset_none ==
    TRUE

\* BL_ASSERT(!m_coeff.beta_set)
beta_unset ==
    ~m_coeff.beta_set

\* BL_ASSERT(!m_coeff.b_set)
b_unset ==
    ~m_coeff.b_set

Setter(op, pre, coeff) ==
    /\ status = "ok"
    /\ UNCHANGED <<n_set_bc, particles, backtrace>>
    /\ IF pre
       THEN /\ m_coeff' = coeff
            /\ last' = Call(op, TRUE, FALSE, "none", "none")
            /\ UNCHANGED <<status, config, m_bc, engine>>
       ELSE Abort(op)

\* b[0].size() of an empty Array< PArray<MultiFab> > is an out-of-bounds
\* read: the call crashes, fails the assertion on what it read, or goes on.
SetterOob(op, coeff) ==
    /\ status = "ok"
    /\ UNCHANGED <<n_set_bc, config, m_bc, engine, particles, backtrace>>
    /\ \/ /\ status' \in {"crashed", "aborted"}
          /\ last' = Call(op, FALSE, FALSE, "none", "oob")
          /\ UNCHANGED m_coeff
       \/ /\ status' = "ok"
          /\ m_coeff' = coeff
          /\ last' = Call(op, TRUE, FALSE, "none", "oob")

set_const_gravity_coeffs ==
    Setter("set_const_gravity_coeffs", gravity_compatible,
           [m_coeff EXCEPT !.eq_type = const_gravity_eq])

\* set_gravity_coeffs (PArray<MultiFab>& b)
set_gravity_coeffs_PArray ==
    \E ndim \in NDims :
        Setter("set_gravity_coeffs_PArray",
               gravity_compatible /\ m_nlevels = 1 /\ ndim = BL_SPACEDIM,
               [m_coeff EXCEPT !.eq_type = gravity_eq, !.b_set = TRUE,
                               !.b = <<1, ndim>>])

\* set_gravity_coeffs (Array< PArray<MultiFab> >& b)
set_gravity_coeffs_Array ==
    \E nb \in Sizes, ndim \in NDims :
        LET coeff == [m_coeff EXCEPT !.eq_type = gravity_eq, !.b_set = TRUE,
                                     !.b = <<nb, ndim>>]
        IN  IF gravity_compatible /\ nb = m_nlevels /\ nb = 0
            THEN SetterOob("set_gravity_coeffs_Array", coeff)
            ELSE Setter("set_gravity_coeffs_Array",
                        gravity_compatible /\ nb = m_nlevels
                            /\ ndim = BL_SPACEDIM,
                        coeff)

set_alpha ==
    \E alpha \in RealVals :
        Setter("set_alpha", general_compatible /\ alpha_unset,
               [m_coeff EXCEPT !.eq_type = general_eq, !.alpha_set = TRUE,
                               !.alpha = alpha])

\* without BL_ASSERT(m_nlevels == 1)
set_acoef_MultiFab_any_levels ==
    Setter("set_acoef_MultiFab",
           general_compatible /\ a_unset,
           [m_coeff EXCEPT !.eq_type = general_eq, !.a_set = TRUE, !.a = 1])

\* set_acoef (MultiFab& a)
set_acoef_MultiFab ==
    Setter("set_acoef_MultiFab",
           general_compatible /\ a_unset /\ m_nlevels = 1,
           [m_coeff EXCEPT !.eq_type = general_eq, !.a_set = TRUE, !.a = 1])

\* set_acoef (PArray<MultiFab>& a)
set_acoef_PArray ==
    \E na \in Sizes :
        Setter("set_acoef_PArray",
               general_compatible /\ a_unset /\ m_nlevels = na,
               [m_coeff EXCEPT !.eq_type = general_eq, !.a_set = TRUE,
                               !.a = na])

\* the value stored in alpha instead of beta
set_beta_into_alpha ==
    \E beta \in RealVals :
        Setter("set_beta", general_compatible /\ beta_unset,
               [m_coeff EXCEPT !.eq_type = general_eq, !.beta_set = TRUE,
                               !.alpha = beta])

\* set_beta (Real beta)
set_beta ==
    \E beta \in RealVals :
        Setter("set_beta", general_compatible /\ beta_unset,
               [m_coeff EXCEPT !.eq_type = general_eq, !.beta_set = TRUE,
                               !.beta = beta])

\* set_bcoef (MultiFab* b)
set_bcoef_ptr ==
    Setter("set_bcoef_ptr",
           general_compatible /\ b_unset /\ m_nlevels = 1,
           [m_coeff EXCEPT !.eq_type = general_eq, !.b_set = TRUE,
                           !.b = <<1, BL_SPACEDIM>>])

\* set_bcoef (PArray<MultiFab>& b)
set_bcoef_PArray ==
    \E ndim \in NDims :
        Setter("set_bcoef_PArray",
               general_compatible /\ b_unset /\ m_nlevels = 1
                   /\ ndim = BL_SPACEDIM,
               [m_coeff EXCEPT !.eq_type = general_eq, !.b_set = TRUE,
                               !.b = <<1, ndim>>])

\* set_bcoef (Array<PArray<MultiFab> >& b)
set_bcoef_Array ==
    \E nb \in Sizes, ndim \in NDims :
        LET coeff == [m_coeff EXCEPT !.eq_type = general_eq, !.b_set = TRUE,
                                     !.b = <<nb, ndim>>]
        IN  IF general_compatible /\ b_unset /\ m_nlevels = nb /\ nb = 0
            THEN SetterOob("set_bcoef_Array", coeff)
            ELSE Setter("set_bcoef_Array",
                        general_compatible /\ b_unset /\ m_nlevels = nb
                            /\ ndim = BL_SPACEDIM,
                        coeff)

GravityOps ==
    {"set_const_gravity_coeffs", "set_gravity_coeffs_PArray",
     "set_gravity_coeffs_Array"}
AlphaOps == {"set_alpha"}
AcoefOps == {"set_acoef_MultiFab", "set_acoef_PArray"}
BetaOps == {"set_beta"}
BcoefOps == {"set_bcoef_ptr", "set_bcoef_PArray", "set_bcoef_Array"}
GeneralOps == AlphaOps \cup AcoefOps \cup BetaOps \cup BcoefOps

(* ------------------- Boundary::set_bndry_values ----------------------- *)
\* every descriptor treated as the one without fields
set_bndry_values_always_homog(bc, crse_ratio) ==
    "homog"

\* Which derivation the MacBndry is given; "abort" is a failed assertion or
\* the BoxLib::Abort of the last branch.
set_bndry_values(bc, crse_ratio) ==
    IF bc.crse_phi = 0 /\ bc.phi = 0 THEN "homog"
    ELSE IF bc.crse_phi = 0 /\ bc.phi # 0 THEN "fine"
    ELSE IF bc.crse_phi # 0 /\ bc.phi # 0
         THEN IF crse_ratio # TheZeroVector THEN "crse_fine" ELSE "abort"
    ELSE "abort"

(* ----------------------- ABecCoeff::set_coeffs ------------------------ *)
\* BL_ASSERT(fmg.m_baselevel >= 0);
\* BL_ASSERT(fmg.m_baselevel == 0 || fmg.m_crse_ratio != TheZeroVector)
set_coeffs_pre ==
    /\ m_baselevel >= 0
    /\ (m_baselevel = 0 \/ m_crse_ratio # TheZeroVector)

Half(x) == x \div 2

\* the local-root branch without the factor m_crse_ratio[n]
xa_at_no_ratio(lev, n) ==
    IF lev + m_baselevel = 0 THEN 0
    ELSE IF lev = 0 THEN Half(m_geom[1][n])
    ELSE Half(m_geom[lev][n])

\* xa[lev][n] of the loop over the levels; lev counts from 0 as in the
\* code, m_geom[lev + 1] is the code's m_geom[lev].
xa_at(lev, n) ==
    IF lev + m_baselevel = 0 THEN 0
    ELSE IF lev = 0 THEN Half(m_crse_ratio[n] * m_geom[1][n])
    ELSE Half(m_geom[lev][n])

\* xb[lev][n], the second assignment of each branch
xb_at(lev, n) ==
    IF lev + m_baselevel = 0 THEN 0
    ELSE IF lev = 0 THEN Half(m_crse_ratio[n] * m_geom[1][n])
    ELSE Half(m_geom[lev][n])

xa_all == [l \in 1..m_nlevels |-> [n \in Dims |-> xa_at(l - 1, n)]]
xb_all == [l \in 1..m_nlevels |-> [n \in Dims |-> xb_at(l - 1, n)]]

\* the field variant dispatched to the constant-gravity form
coeff_form_gravity_as_const ==
    IF m_coeff.eq_type = const_gravity_eq THEN "const_gravity"
    ELSE IF m_coeff.eq_type = gravity_eq
         THEN IF m_coeff.b_set THEN "const_gravity" ELSE "abort"
    ELSE IF m_coeff.eq_type = general_eq
         THEN IF m_coeff.alpha_set /\ m_coeff.a_set /\ m_coeff.beta_set
                 /\ m_coeff.b_set
              THEN "abeclap" ELSE "abort"
    ELSE "abort"

\* the general branch without the test of a_set
coeff_form_no_a_check ==
    IF m_coeff.eq_type = const_gravity_eq THEN "const_gravity"
    ELSE IF m_coeff.eq_type = gravity_eq
         THEN IF m_coeff.b_set THEN "gravity" ELSE "abort"
    ELSE IF m_coeff.eq_type = general_eq
         THEN IF m_coeff.alpha_set /\ m_coeff.beta_set /\ m_coeff.b_set
              THEN "abeclap" ELSE "abort"
    ELSE "abort"

\* The coefficient form the dispatch on eq_type hands to the kernel.
coeff_form ==
    IF m_coeff.eq_type = const_gravity_eq THEN "const_gravity"
    ELSE IF m_coeff.eq_type = gravity_eq
         THEN IF m_coeff.b_set THEN "gravity" ELSE "abort"
    ELSE IF m_coeff.eq_type = general_eq
         THEN IF m_coeff.alpha_set /\ m_coeff.a_set /\ m_coeff.beta_set
                 /\ m_coeff.b_set
              THEN "abeclap" ELSE "abort"
    ELSE "abort"

(* ------------------- solve and compute_residual ----------------------- *)
\* without the assertions on m_mgt_solver and m_bndry
solve_pre_no_handle_check ==
    /\ m_bc.initilized
    /\ m_coeff.eq_type # invalid_eq

\* without the assertion on m_bc.initilized
solve_pre_no_bc_check ==
    /\ m_coeff.eq_type # invalid_eq
    /\ m_mgt_solver = 0
    /\ m_bndry = 0

\* the four assertions solve starts with
solve_pre ==
    /\ m_bc.initilized
    /\ m_coeff.eq_type # invalid_eq
    /\ m_mgt_solver = 0
    /\ m_bndry = 0

\* without the assertions on m_mgt_solver and m_bndry
compute_residual_pre_no_handle_check ==
    /\ m_bc.initilized
    /\ m_coeff.eq_type # invalid_eq

\* the four assertions compute_residual starts with
compute_residual_pre ==
    /\ m_bc.initilized
    /\ m_coeff.eq_type # invalid_eq
    /\ m_mgt_solver = 0
    /\ m_bndry = 0

\* init_mgt_solver and the kernel call that follows it: the handle and the
\* boundary register are constructed, then the boundary values and the
\* coefficients are set, each of which may abort, then the kernel runs.
Run(op, kind, ub) ==
    LET bk == set_bndry_values(m_bc, m_crse_ratio)
        cf == IF bk # "abort" /\ set_coeffs_pre THEN coeff_form ELSE "abort"
        done == bk # "abort" /\ cf # "abort"
    IN  /\ m_mgt_solver' = nbuilt + 1
        /\ m_bndry' = nbuilt + 1
        /\ nbuilt' = nbuilt + 1
        /\ kernel' =
             [bndry |-> IF bk = "abort" THEN "none" ELSE bk,
              form |-> IF cf = "abort" THEN "none" ELSE cf,
              xa |-> IF cf = "abort" THEN <<>> ELSE xa_all,
              xb |-> IF cf = "abort" THEN <<>> ELSE xb_all,
              alpha |-> IF cf = "abeclap" THEN m_coeff.alpha ELSE 0,
              beta |-> IF cf = "abeclap" THEN m_coeff.beta ELSE 0,
              a |-> IF cf = "abeclap" THEN m_coeff.a ELSE 0,
              b |-> IF cf \in {"abeclap", "gravity"} THEN m_coeff.b
                    ELSE <<0, 0>>,
              ran |-> IF done THEN kind ELSE "none"]
        /\ status' = IF done THEN "ok" ELSE "aborted"
        /\ last' = Call(op, done, TRUE, IF done THEN kind ELSE "none", ub)

\* nfields: the least number of elements among the PArrays the caller
\* passed.
SolveLike(op, kind, pre, nfields) ==
    /\ status = "ok"
    /\ UNCHANGED <<config, m_bc, m_coeff, n_set_bc, particles, backtrace>>
    /\ IF ~pre
       THEN /\ status' = "aborted"
            /\ last' = Call(op, FALSE, FALSE, "none", "none")
            /\ UNCHANGED engine
       ELSE IF nfields < m_nlevels \/ m_nlevels = 0
       THEN \* phi[ilev], ba[0] or m_geom[0] is read out of bounds
            \/ /\ status' \in {"crashed", "aborted"}
               /\ last' = Call(op, FALSE, FALSE, "none", "oob")
               /\ UNCHANGED engine
            \/ Run(op, kind, "oob")
       ELSE Run(op, kind, "none")

\* solve (MultiFab& phi, MultiFab& rhs, ...)
solve_MultiFab ==
    SolveLike("solve_MultiFab", "solve", solve_pre, 1)

\* solve (PArray<MultiFab>& phi, PArray<MultiFab>& rhs, ...)
solve_PArray ==
    \E nfields \in Sizes :
        SolveLike("solve_PArray", "solve", solve_pre, nfields)

\* compute_residual (MultiFab& phi, MultiFab& rhs, MultiFab& res)
compute_residual_MultiFab ==
    SolveLike("compute_residual_MultiFab", "compute_residual",
              compute_residual_pre, 1)

\* the solve method of the kernel called in place of compute_residual
compute_residual_PArray_as_solve ==
    \E nfields \in Sizes :
        SolveLike("compute_residual_PArray", "solve",
                  compute_residual_pre, nfields)

\* compute_residual (PArray<MultiFab>& phi, PArray& rhs, PArray& res)
compute_residual_PArray ==
    \E nfields \in Sizes :
        SolveLike("compute_residual_PArray", "compute_residual",
                  compute_residual_pre, nfields)

SolveOps == {"solve_MultiFab", "solve_PArray"}
ResidualOps == {"compute_residual_MultiFab", "compute_residual_PArray"}

(* --------------------------- get_grad_phi ----------------------------- *)
\* m_mgt_solver->get_fluxes(...) for each of the levels 0..nlev-1, of which
\* the caller supplied ngrad: a null m_mgt_solver is dereferenced, or
\* grad_phi is read out of bounds, and the call crashes or goes on.
GetFluxes(op, pre, nlev, ngrad) ==
    /\ status = "ok"
    /\ UNCHANGED <<config, m_bc, m_coeff, engine, n_set_bc, particles, backtrace>>
    /\ IF ~pre
       THEN /\ status' = "aborted"
            /\ last' = Call(op, FALSE, FALSE, "none", "none")
       ELSE IF nlev = 0
       THEN /\ status' = "ok"
            /\ last' = Call(op, TRUE, FALSE, "none", "none")
       ELSE IF m_mgt_solver = 0
       THEN \/ /\ status' = "crashed"
               /\ last' = Call(op, FALSE, FALSE, "get_fluxes", "null_deref")
            \/ /\ status' = "ok"
               /\ last' = Call(op, TRUE, FALSE, "get_fluxes", "null_deref")
       ELSE IF ngrad < nlev
       THEN \/ /\ status' \in {"crashed", "aborted"}
               /\ last' = Call(op, FALSE, FALSE, "get_fluxes", "oob")
            \/ /\ status' = "ok"
               /\ last' = Call(op, TRUE, FALSE, "get_fluxes", "oob")
       ELSE /\ status' = "ok"
            /\ last' = Call(op, TRUE, FALSE, "get_fluxes", "none")

\* get_grad_phi (PArray<MultiFab>& grad_phi)
get_grad_phi_PArray ==
    GetFluxes("get_grad_phi_PArray", m_nlevels = 1, 1, 1)

\* get_grad_phi (Array<PArray<MultiFab> >& grad_phi)
get_grad_phi_Array ==
    \E ngrad \in Sizes :
        GetFluxes("get_grad_phi_Array", TRUE, m_nlevels, ngrad)

\* get_grad_phi (PArray<PArray<MultiFab> >& grad_phi)
get_grad_phi_PArrayPArray ==
    \E ngrad \in Sizes :
        GetFluxes("get_grad_phi_PArrayPArray", TRUE, m_nlevels, ngrad)

GradOps ==
    {"get_grad_phi_PArray", "get_grad_phi_Array", "get_grad_phi_PArrayPArray"}

Next ==
    \/ FMultiGrid_Geometry
    \/ FMultiGrid_vector
    \/ FMultiGrid_PArray
    \/ set_bc_codes
    \/ set_bc_fine
    \/ set_bc_crse_fine
    \/ set_const_gravity_coeffs
    \/ set_gravity_coeffs_PArray
    \/ set_gravity_coeffs_Array
    \/ set_alpha
    \/ set_acoef_MultiFab
    \/ set_acoef_PArray
    \/ set_beta
    \/ set_bcoef_ptr
    \/ set_bcoef_PArray
    \/ set_bcoef_Array
    \/ solve_MultiFab
    \/ solve_PArray
    \/ compute_residual_MultiFab
    \/ compute_residual_PArray
    \/ get_grad_phi_PArray
    \/ get_grad_phi_Array
    \/ get_grad_phi_PArrayPArray

Spec == Init /\ [][Next]_vars

(* ------------- the transition distances on their own ------------------ *)
\* An orchestrator as a constructor leaves it, over the larger set of
\* geometries; then the shortest way to a solve.
InitXa ==
    \E geom \in GeomsXa, bl \in BaseLevels, r \in IntVects :
        /\ crse_ratio_ok(bl, r)
        /\ ParticlesOff
        /\ BacktraceOff
        /\ status = "ok"
        /\ m_nlevels = Len(geom)
        /\ m_baselevel = bl
        /\ m_crse_ratio = r
        /\ m_geom = geom
        /\ m_bc = Boundary0
        /\ m_coeff = ABecCoeff0
        /\ m_mgt_solver = 0
        /\ m_bndry = 0
        /\ nbuilt = 0
        /\ kernel = Kernel0
        /\ n_set_bc = 0
        /\ last = [NoCall EXCEPT !.op = "FMultiGrid_vector"]

NextXa ==
    \/ set_bc_codes
    \/ set_bc_crse_fine
    \/ set_const_gravity_coeffs
    \/ solve_PArray
    \/ compute_residual_PArray

SpecXa == InitXa /\ [][NextXa]_vars

(* ------------------- particle tiles and their kernels ------------------ *)
(* AMReX_ParticleTransformation.H. A tile is a struct of arrays: m_aos,    *)
(* one real component m_rdata and one int component m_idata, indexed from  *)
(* 0 in the code and from 1 here. A particle is numbered from 1 and every  *)
(* component of it holds its number; 0 fills a tile not written yet.       *)
(* AMREX_HOST_DEVICE_FOR_1D runs its iterations in any order: when two of  *)
(* them write the same element, either write may be the one that stays.    *)
(* A read past the end of an array returns some value or ends the process; *)
(* a write past the end of a tile lands outside the tile.                  *)
NewTile(ids) == [m_aos |-> ids, m_rdata |-> ids, m_idata |-> ids]
BlankTile(n) == NewTile([k \in 1..n |-> 0])
SrcTiles == {NewTile([k \in 1..n |-> k]) : n \in 0..MaxNp}
DstSize == MaxNp + MaxStart
Starts == 0..MaxStart
MaskVals == 0..MaxMask
\* what an element read past the end of a tile, or of an index array, holds
GarbageParticle == {0, MaxNp + 1}
GarbageIndex == 0..MaxNp
\* f: the transformation handed to filterAndTransformParticles
Transforms == {"copy", "negate"}
\* p: the predicate handed to the predicate overloads
Preds == {"all", "none", "odd"}

numParticles(t) == Len(t.m_aos)
InTile(t, i) == i >= 0 /\ i < numParticles(t)
ParticleAt(t, i) ==
    [aos |-> t.m_aos[i + 1], rdata |-> t.m_rdata[i + 1],
     idata |-> t.m_idata[i + 1]]

\* src followed by the elements g that reads past its end return
PastEnd(src, g) ==
    LET more == [k \in 1..(MaxStart + MaxNp + 1) |-> g]
    IN  [m_aos |-> src.m_aos \o more, m_rdata |-> src.m_rdata \o more,
         m_idata |-> src.m_idata \o more]

\* copyParticle(dst, src, src_i, dst_i)
copyParticle(dst, src, src_i, dst_i) ==
    [m_aos |-> [dst.m_aos EXCEPT ![dst_i + 1] = src.m_aos[src_i + 1]],
     m_rdata |-> [dst.m_rdata EXCEPT ![dst_i + 1] = src.m_rdata[src_i + 1]],
     m_idata |-> [dst.m_idata EXCEPT ![dst_i + 1] = src.m_idata[src_i + 1]]]

\* f(dst, src, src_i, dst_i)
Transform(f, dst, src, src_i, dst_i) ==
    IF ~InTile(dst, dst_i) THEN dst
    ELSE IF f = "copy" THEN copyParticle(dst, src, src_i, dst_i)
    ELSE LET c == copyParticle(dst, src, src_i, dst_i)
         IN  [c EXCEPT !.m_idata[dst_i + 1] = 0 - @]

\* p(src, i)
Pred(p, src, i) ==
    IF p = "all" THEN TRUE
    ELSE IF p = "none" THEN FALSE
    ELSE src.m_aos[i + 1] % 2 = 1

\* AMREX_HOST_DEVICE_FOR_1D: the tiles the iterations in calls, each a
\* call f(dst, src, src_i, dst_i), may leave in dst; k counts the elements
\* of dst settled so far.
RECURSIVE ForEach(_, _, _, _, _)
ForEach(dst, src, calls, f, k) ==
    IF k = 0 THEN {dst}
    ELSE LET before == ForEach(dst, src, calls, f, k - 1)
             here == {c \in calls : c.dst_i = k - 1}
         IN  IF here = {} THEN before
             ELSE {Transform(f, d, src, c.src_i, c.dst_i) :
                       d \in before, c \in here}

RECURSIVE SumTo(_, _)
SumTo(mask, k) == IF k = 0 THEN 0 ELSE SumTo(mask, k - 1) + mask[k]

\* Gpu::exclusive_scan(mask, mask+n, offsets.begin())
exclusive_scan(mask, n) == [i \in 1..n |-> SumTo(mask, i - 1)]

NoPCall ==
    [op |-> "none", n |-> 0, inds |-> <<>>, mask |-> <<>>, f |-> "copy",
     src_start |-> 0, dst_start |-> 0, ret |-> 0, ub |-> "none",
     calls |-> {}, pre |-> <<>>, prev_op |-> "none", prev_n |-> 0,
     prev_inds |-> <<>>]

\* The record of a call: its arguments, what it returned, whether it
\* accessed an element past the end, the iterations that called copyParticle
\* or f, the tiles it started from and the call before it.
PCall(op, n, inds, mask, f, src_start, dst_start, ret, ub, calls) ==
    [op |-> op, n |-> n, inds |-> inds, mask |-> mask, f |-> f,
     src_start |-> src_start, dst_start |-> dst_start, ret |-> ret,
     ub |-> ub, calls |-> calls, pre |-> tile, prev_op |-> plast.op,
     prev_n |-> plast.n, prev_inds |-> plast.inds]

InitParticles ==
    /\ status = "new"
    /\ m_nlevels = 0
    /\ m_baselevel = 0
    /\ m_crse_ratio = TheZeroVector
    /\ m_geom = <<>>
    /\ m_bc = Boundary0
    /\ m_coeff = ABecCoeff0
    /\ m_mgt_solver = 0
    /\ m_bndry = 0
    /\ nbuilt = 0
    /\ kernel = Kernel0
    /\ n_set_bc = 0
    /\ last = NoCall
    /\ \E src \in SrcTiles :
           tile = [src |-> src, tmp |-> BlankTile(numParticles(src)),
                   dst |-> BlankTile(DstSize)]
    /\ pstage = "start"
    /\ plast = NoPCall
    /\ BacktraceOff

\* the iterations of scatterParticles in place of those of gatherParticles
gather_calls_as_scatter(np, inds) ==
    {[i |-> i, src_i |-> i, dst_i |-> inds[i + 1]] : i \in 0..(np - 1)}

\* copyParticle(dst_data, src_data, inds[i], i) for i < np
gather_calls(np, inds) ==
    {[i |-> i, src_i |-> inds[i + 1], dst_i |-> i] : i \in 0..(np - 1)}

\* copyParticle(dst_data, src_data, i, inds[i]) for i < np
scatter_calls(np, inds) ==
    {[i |-> i, src_i |-> i, dst_i |-> inds[i + 1]] : i \in 0..(np - 1)}

\* gatherParticles(tmp, src, np, inds)
gatherParticles ==
    /\ pstage = "start"
    /\ UNCHANGED <<fmg, backtrace>>
    /\ \E np \in 0..numParticles(tile.src) :
       \E inds \in [1..np -> 0..(numParticles(tile.src) - 1)] :
       \E d \in ForEach(tile.tmp, tile.src, gather_calls(np, inds), "copy",
                        numParticles(tile.tmp)) :
           /\ tile' = [tile EXCEPT !.tmp = d]
           /\ pstage' = "gathered"
           /\ plast' = PCall("gatherParticles", np, inds, <<>>, "copy", 0, 0,
                             0, "none", gather_calls(np, inds))

\* scatterParticles(dst, tmp, np, inds)
scatterParticles ==
    /\ pstage \in {"start", "gathered"}
    /\ UNCHANGED <<fmg, backtrace>>
    /\ \E np \in 0..numParticles(tile.tmp) :
       \E inds \in [1..np -> 0..(numParticles(tile.tmp) - 1)] :
       \E d \in ForEach(tile.dst, tile.tmp, scatter_calls(np, inds), "copy",
                        numParticles(tile.dst)) :
           /\ tile' = [tile EXCEPT !.dst = d]
           /\ pstage' = "done"
           /\ plast' = PCall("scatterParticles", np, inds, <<>>, "copy", 0, 0,
                             0, "none", scatter_calls(np, inds))

\* the offsets left out: particle i written to dst_start + i
filter_calls_unpacked(mask, offsets, src_start, dst_start, n) ==
    {[i |-> i, src_i |-> src_start + i, dst_i |-> dst_start + i] :
         i \in {j \in 0..(n - 1) : mask[j + 1] # 0}}

\* if (mask[i]) copyParticle(dst_data, src_data, src_start+i,
\*                           dst_start+p_offsets[i]) for i < n
filter_calls(mask, offsets, src_start, dst_start, n) ==
    {[i |-> i, src_i |-> src_start + i, dst_i |-> dst_start + offsets[i + 1]] :
         i \in {j \in 0..(n - 1) : mask[j + 1] # 0}}

\* if (mask[i]) f(dst_data, src_data, src_start+i,
\*                dst_start+p_offsets[src_start+i]) for i < np; go is what
\* an element of offsets past its end holds
transform_calls(mask, offsets, src_start, dst_start, np, go) ==
    {[i |-> i, src_i |-> src_start + i,
      dst_i |-> dst_start + (IF src_start + i < np
                             THEN offsets[src_start + i + 1] ELSE go)] :
         i \in {j \in 0..(np - 1) : mask[j + 1] # 0}}

\* The body the mask and the predicate overloads share: the iterations in
\* calls run on dst and src; past_end says that some element past the end of
\* src, dst, mask or offsets is accessed; ret is what the call returns when
\* last_mask and last_offset are read inside the arrays.
Filtered(op, n, mask, f, src_start, dst_start, calls, past_end, ret) ==
    /\ UNCHANGED <<fmg, backtrace>>
    /\ IF ~past_end
       THEN \E d \in ForEach(tile.dst, tile.src, calls, f,
                             numParticles(tile.dst)) :
                /\ tile' = [tile EXCEPT !.dst = d]
                /\ pstage' = "done"
                /\ plast' = PCall(op, n, <<>>, mask, f, src_start, dst_start,
                                  ret, "none", calls)
       ELSE \/ /\ UNCHANGED tile
               /\ pstage' = "crashed"
               /\ plast' = PCall(op, n, <<>>, mask, f, src_start, dst_start,
                                 0, "oob", calls)
            \/ \E g \in GarbageParticle, r \in GarbageIndex :
               \E d \in ForEach(tile.dst, PastEnd(tile.src, g), calls, f,
                                numParticles(tile.dst)) :
                   /\ tile' = [tile EXCEPT !.dst = d]
                   /\ pstage' = "done"
                   /\ plast' = PCall(op, n, <<>>, mask, f, src_start,
                                     dst_start, IF n = 0 THEN r ELSE ret,
                                     "oob", calls)

\* filterParticles(dst, src, mask, src_start, dst_start, n); pred_past_end
\* says that the predicate overload read src past its end to fill mask
filterParticles(op, mask, src_start, dst_start, n, pred_past_end) ==
    LET offsets == exclusive_scan(mask, n)
        calls == filter_calls(mask, offsets, src_start, dst_start, n)
        past_end ==
            \/ pred_past_end
            \/ n = 0
            \/ \E c \in calls : ~InTile(tile.src, c.src_i)
                                    \/ ~InTile(tile.dst, c.dst_i)
    IN  Filtered(op, n, mask, "copy", src_start, dst_start, calls, past_end,
                 IF n = 0 THEN 0 ELSE mask[n] + offsets[n])

\* filterParticles (dst, src, const Index* mask, src_start, dst_start, n)
filterParticles_mask ==
    /\ pstage = "start"
    /\ \E n \in 0..MaxNp, src_start \in Starts, dst_start \in Starts :
       \E mask \in [1..n -> MaskVals] :
           filterParticles("filterParticles_mask", mask, src_start,
                           dst_start, n, FALSE)

\* p_mask[i] = p(src_data, src_start+i) for i < n
pred_mask(p, src, src_start, n) ==
    [i \in 1..n |-> IF Pred(p, src, src_start + i - 1) THEN 1 ELSE 0]

\* filterParticles (dst, src, Pred&& p, src_start, dst_start, n)
filterParticles_Pred ==
    /\ pstage = "start"
    /\ \E n \in 0..MaxNp, src_start \in Starts, dst_start \in Starts,
          p \in Preds :
       LET past_end == n > 0 /\ src_start + n > numParticles(tile.src)
       IN  \E g \in IF past_end THEN GarbageParticle ELSE {0} :
               filterParticles("filterParticles_Pred",
                               pred_mask(p, PastEnd(tile.src, g), src_start, n),
                               src_start, dst_start, n, past_end)

\* filterAndTransformParticles(dst, src, mask, f, src_start, dst_start)
filterAndTransformParticles(op, mask, f, src_start, dst_start, pred_past_end) ==
    LET np == numParticles(tile.src)
        offsets == exclusive_scan(mask, np)
        selected == {j \in 0..(np - 1) : mask[j + 1] # 0}
        offsets_past_end == \E i \in selected : src_start + i >= np
    IN  \E go \in IF offsets_past_end THEN GarbageIndex ELSE {0} :
        LET calls == transform_calls(mask, offsets, src_start, dst_start, np,
                                     go)
            past_end ==
                \/ pred_past_end
                \/ np = 0
                \/ offsets_past_end
                \/ \E c \in calls : ~InTile(tile.src, c.src_i)
                                        \/ ~InTile(tile.dst, c.dst_i)
        IN  Filtered(op, np, mask, f, src_start, dst_start, calls, past_end,
                     IF np = 0 THEN 0 ELSE mask[np] + offsets[np])

\* filterAndTransformParticles (dst, src, Index* mask, f, src_start, dst_start)
filterAndTransformParticles_mask ==
    /\ pstage = "start"
    /\ \E src_start \in Starts, dst_start \in Starts, f \in Transforms :
       \E mask \in [1..numParticles(tile.src) -> MaskVals] :
           filterAndTransformParticles("filterAndTransformParticles_mask",
                                       mask, f, src_start, dst_start, FALSE)

\* filterAndTransformParticles (dst, src, Pred&& p, f, src_start, dst_start)
filterAndTransformParticles_Pred ==
    /\ pstage = "start"
    /\ \E src_start \in Starts, dst_start \in Starts, f \in Transforms,
          p \in Preds :
       LET np == numParticles(tile.src)
           past_end == np > 0 /\ src_start > 0
       IN  \E g \in IF past_end THEN GarbageParticle ELSE {0} :
               filterAndTransformParticles(
                   "filterAndTransformParticles_Pred",
                   pred_mask(p, PastEnd(tile.src, g), src_start, np),
                   f, src_start, dst_start, past_end)

FilterOps == {"filterParticles_mask", "filterParticles_Pred"}
TransformOps == {"filterAndTransformParticles_mask",
                 "filterAndTransformParticles_Pred"}

NextParticles ==
    \/ gatherParticles
    \/ scatterParticles
    \/ filterParticles_mask
    \/ filterParticles_Pred
    \/ filterAndTransformParticles_mask
    \/ filterAndTransformParticles_Pred

SpecParticles == InitParticles /\ [][NextParticles]_vars

(* ===================== the backtrace scope stack ====================== *)
\* One thread, no OpenMP: the #else branches of BLBTer.
MaxLine == 1
MaxDepth == 2

Files == {"A.cpp", "B.cpp"}
Lines == 1..MaxLine
Scopes == {"f()", "g()"}

\* ParallelDescriptor::MyProc()
Procs == {0}

\* ss << "Line " << line << ", File " << file
line_file_of(file, line) ==
    <<"Line ", line, ", File ", file>>

\* ss0 << "Proc. " << ParallelDescriptor::MyProc() << ": \"" << s << "\""
scope_of(proc, s) ==
    <<"Proc. ", proc, ": \"", s, "\"">>

\* std::stack: top, push and pop on the sequence kept bottom first
top(stack) == stack[Len(stack)]
push(stack, e) == Append(stack, e)
pop(stack) == SubSeq(stack, 1, Len(stack) - 1)

NoBtCall ==
    [op |-> "none", s |-> "", line_file |-> <<>>, pre |-> <<>>,
     at_ctor |-> <<>>, nested |-> TRUE]

\* The BLBTer call made last: the scope string and the line_file of its
\* object, the stack before the call, the stack before the object's
\* constructor, and whether every destructor so far was that of the object
\* constructed last among those alive.
BtCall(op, s, lf, at_ctor, nested) ==
    [op |-> op, s |-> s, line_file |-> lf, pre |-> bt_stack,
     at_ctor |-> at_ctor, nested |-> nested]

InitBacktrace ==
    /\ ParticlesOff
    /\ status = "new"
    /\ m_nlevels = 0
    /\ m_baselevel = 0
    /\ m_crse_ratio = TheZeroVector
    /\ m_geom = <<>>
    /\ m_bc = Boundary0
    /\ m_coeff = ABecCoeff0
    /\ m_mgt_solver = 0
    /\ m_bndry = 0
    /\ nbuilt = 0
    /\ kernel = Kernel0
    /\ n_set_bc = 0
    /\ last = NoCall
    /\ bt_stack = <<>>
    /\ bt_live = <<>>
    /\ bt_status = "on"
    /\ bt_last = NoBtCall

\* BLBTer::BLBTer (const std::string& s, const char* file, int line)
BLBTer ==
    /\ bt_status = "on"
    /\ Len(bt_stack) < MaxDepth
    /\ UNCHANGED <<fmg, particles, bt_status>>
    /\ \E s \in Scopes, file \in Files, line \in Lines, proc \in Procs :
           LET line_file == line_file_of(file, line)
           IN  /\ bt_stack' = push(bt_stack, <<scope_of(proc, s), line_file>>)
               /\ bt_live' = Append(bt_live, [line_file |-> line_file,
                                              at_ctor |-> bt_stack])
               /\ bt_last' = BtCall("BLBTer", s, line_file, bt_stack,
                                    bt_last.nested)

\* the comparison with line_file left out
pop_bt_stack_any_top(line_file) ==
    IF bt_stack # <<>>
    THEN pop(bt_stack)
    ELSE bt_stack

\* BLBTer::pop_bt_stack ()
pop_bt_stack(line_file) ==
    IF bt_stack # <<>>
    THEN IF top(bt_stack)[2] = line_file
         THEN pop(bt_stack)
         ELSE bt_stack
    ELSE bt_stack

\* BLBTer::~BLBTer (), of any object alive
BLBTer_dtor ==
    /\ bt_status = "on"
    /\ UNCHANGED <<fmg, particles, bt_status>>
    /\ \E k \in 1..Len(bt_live) :
           /\ bt_stack' = pop_bt_stack(bt_live[k].line_file)
           /\ bt_live' = SubSeq(bt_live, 1, k - 1)
                             \o SubSeq(bt_live, k + 1, Len(bt_live))
           /\ bt_last' = BtCall("~BLBTer", "", bt_live[k].line_file,
                                bt_live[k].at_ctor,
                                bt_last.nested /\ k = Len(bt_live))

\* BLBackTrace::handler (int s): the stack is written to the error file and
\* emptied when the file opens, then the process is aborted
handler ==
    /\ bt_status = "on"
    /\ UNCHANGED <<fmg, particles, bt_live>>
    /\ bt_status' = "aborted"
    /\ bt_stack' \in {<<>>, bt_stack}
    /\ bt_last' = BtCall("handler", "", <<>>, <<>>, bt_last.nested)

NextBacktrace ==
    \/ BLBTer
    \/ BLBTer_dtor
    \/ handler

SpecBacktrace == InitBacktrace /\ [][NextBacktrace]_vars

(* ============================== claims ================================ *)
RunOps == SolveOps \cup ResidualOps

\* C1: a constructor called with base level > 0 and the zero ratio aborts;
\* called with base level 0 it succeeds whatever the ratio is.
C1_ConstructorRatioCheck ==
    last.op \in CtorOps =>
        /\ (m_baselevel > 0 /\ m_crse_ratio = TheZeroVector)
               => (status = "aborted" /\ ~last.accepted)
        /\ m_baselevel = 0 => (status = "ok" /\ last.accepted)

C1_Witness ==
    /\ last.op \in CtorOps
    /\ m_baselevel > 0
    /\ m_crse_ratio = TheZeroVector
    /\ status = "aborted"

\* C2 as stated: of two set_bc calls, whatever the overloads, the first is
\* accepted and the second fails and leaves the descriptor as it was.
C2_FirstAcceptedSecondFails ==
    last.op \in SetBcOps =>
        /\ n_set_bc = 1 => last.accepted
        /\ n_set_bc = 2 => (~last.accepted /\ m_bc = last.pre_bc)

\* C2 amended: the first set_bc call is accepted unless it is the coarse +
\* fine overload on a zero ratio; a set_bc call that follows an accepted
\* one fails and leaves the descriptor of the first call as it was.
C2_SecondSetBcFails ==
    last.op \in SetBcOps =>
        /\ n_set_bc \in {1, 2}
        /\ n_set_bc = 1 =>
               (last.accepted <=>
                    ~(last.op = "set_bc_crse_fine"
                          /\ m_crse_ratio = TheZeroVector))
        /\ n_set_bc = 2 =>
               /\ last.pre_bc.initilized
               /\ ~last.accepted
               /\ status = "aborted"
               /\ m_bc = last.pre_bc

C2_Witness ==
    /\ last.op \in SetBcOps
    /\ n_set_bc = 2
    /\ m_bc.initilized
    /\ status = "aborted"

\* C3: a setter of the general variant called once a gravity variant is
\* selected fails, a gravity setter called once any variant is selected
\* fails, and the failed call leaves the variant tag as it was.
C3_OtherVariantSetterFails ==
    /\ (last.op \in GeneralOps
            /\ last.pre_coeff.eq_type \in {const_gravity_eq, gravity_eq})
           => (~last.accepted /\ m_coeff.eq_type = last.pre_coeff.eq_type)
    /\ (last.op \in GravityOps /\ last.pre_coeff.eq_type # invalid_eq)
           => (~last.accepted /\ m_coeff.eq_type = last.pre_coeff.eq_type)

C3_Witness ==
    /\ last.op = "set_alpha"
    /\ last.pre_coeff.eq_type = const_gravity_eq
    /\ ~last.accepted
    /\ m_coeff.eq_type = const_gravity_eq

\* C4: set_alpha, set_acoef, set_beta or set_bcoef called when its own
\* sub-value is already set fails, whatever else was set in between.
C4_SubValueSetOnce ==
    /\ (last.op \in AlphaOps /\ last.pre_coeff.alpha_set) => ~last.accepted
    /\ (last.op \in AcoefOps /\ last.pre_coeff.a_set) => ~last.accepted
    /\ (last.op \in BetaOps /\ last.pre_coeff.beta_set) => ~last.accepted
    /\ (last.op \in BcoefOps /\ last.pre_coeff.b_set) => ~last.accepted

C4_Witness ==
    /\ last.op \in AcoefOps
    /\ last.pre_coeff.a_set
    /\ last.pre_coeff.beta_set
    /\ status = "aborted"

\* C5: set_bc with a coarse and a fine field fails on a zero ratio, so no
\* state records a coarse field together with the zero ratio and the
\* coarse-fine derivation never runs with the zero ratio.
C5_CoarseFieldNeedsRatio ==
    /\ m_bc.crse_phi # 0 => m_crse_ratio # TheZeroVector
    /\ kernel.bndry = "crse_fine" => m_crse_ratio # TheZeroVector
    /\ (last.op = "set_bc_crse_fine" /\ m_crse_ratio = TheZeroVector)
           => (~last.accepted /\ status = "aborted" /\ m_bc = last.pre_bc)

C5_Witness ==
    /\ last.op = "set_bc_crse_fine"
    /\ m_crse_ratio = TheZeroVector
    /\ status = "aborted"
    /\ m_bc.crse_phi = 0

\* C6: get_grad_phi called when no solve has completed fails a precondition
\* check and neither dereferences nor calls into the solver handle.
C6_GradPhiRequiresSolve ==
    (last.op \in GradOps /\ last.pre_ran # "solve") =>
        /\ ~last.accepted
        /\ last.ub = "none"
        /\ last.invoked = "none"

\* C7: the solver handle is constructed at most once: a solve or
\* compute_residual called when the handle exists fails and constructs
\* nothing.
C7_HandleBuiltOnce ==
    /\ nbuilt <= 1
    /\ (last.op \in RunOps /\ last.pre_handle # 0) =>
           /\ ~last.accepted
           /\ ~last.built
           /\ last.invoked = "none"
           /\ m_mgt_solver = last.pre_handle

C7_Witness ==
    /\ last.op \in RunOps
    /\ last.pre_handle # 0
    /\ nbuilt = 1
    /\ status = "aborted"

\* C8: solve and compute_residual are accepted only when set_bc was called,
\* a variant is selected and no handle exists; otherwise the call fails,
\* constructs neither handle nor boundary register and invokes no kernel.
C8_RunPreconditions ==
    last.op \in RunOps =>
        LET ready == /\ last.pre_bc.initilized
                     /\ last.pre_coeff.eq_type # invalid_eq
                     /\ last.pre_handle = 0
        IN  /\ last.accepted => ready
            /\ ~ready =>
                   /\ ~last.accepted
                   /\ ~last.built
                   /\ last.invoked = "none"
                   /\ m_mgt_solver = last.pre_handle
                   /\ (last.pre_handle = 0 => m_bndry = 0)

C8_Witness ==
    /\ last.op \in SolveOps
    /\ ~last.pre_bc.initilized
    /\ last.pre_coeff.eq_type # invalid_eq
    /\ m_mgt_solver = 0
    /\ status = "aborted"

C10_TransitionDistances ==
    kernel.form # "none" =>
        /\ m_baselevel >= 0
        /\ Len(kernel.xa) = m_nlevels
        /\ Len(kernel.xb) = m_nlevels
        /\ \A L \in 0..(m_nlevels - 1) : \A d \in Dims :
               /\ kernel.xa[L + 1][d] = kernel.xb[L + 1][d]
               /\ (L + m_baselevel = 0) => kernel.xa[L + 1][d] = 0
               /\ (L = 0 /\ m_baselevel > 0) =>
                      2 * kernel.xa[L + 1][d] = m_crse_ratio[d] * m_geom[1][d]
               /\ L > 0 => 2 * kernel.xa[L + 1][d] = m_geom[L][d]
        /\ (m_baselevel = 0 /\ m_nlevels = 1) => kernel.xa = << <<0, 0>> >>
        /\ (m_baselevel = 1 /\ m_nlevels >= 1 /\ m_crse_ratio = <<2, 2>>
                /\ m_geom[1] = <<40, 40>>)
               => (kernel.xa[1] = <<40, 40>> /\ kernel.xb[1] = <<40, 40>>)

C10_Witness ==
    /\ kernel.form # "none"
    /\ m_baselevel = 1
    /\ m_nlevels = 2
    /\ m_crse_ratio = <<2, 2>>
    /\ m_geom[1] = <<40, 40>>
    /\ kernel.xa = << <<40, 40>>, <<20, 20>> >>
    /\ kernel.xb = kernel.xa

\* C11: every successfully constructed orchestrator with base level > 0
\* has a ratio that is non-zero in every dimension; a constructor called
\* with base level > 0 and a ratio with a zero component is rejected.
C11_RatioNonZeroEveryDim ==
    /\ (status = "ok" /\ m_baselevel > 0)
           => \A d \in Dims : m_crse_ratio[d] # 0
    /\ (last.op \in CtorOps /\ m_baselevel > 0
            /\ \E d \in Dims : m_crse_ratio[d] = 0)
           => (status = "aborted" /\ ~last.accepted)

C13_BoundaryLegal ==
    /\ m_bc \in {Boundary0, Boundary(1, 0, 0), Boundary(1, 0, 1),
                 Boundary(1, 1, 1)}
    /\ ~(m_bc.crse_phi # 0 /\ m_bc.phi = 0)
    /\ set_bndry_values(m_bc, m_crse_ratio) # "abort"
    /\ (last.op \in RunOps /\ last.built) => kernel.bndry # "none"

C13_Witness ==
    /\ m_bc = Boundary(1, 1, 1)
    /\ last.op \in RunOps
    /\ last.built
    /\ kernel.bndry = "crse_fine"

\* C14: a successfully constructed orchestrator stores as many geometries
\* as it has levels, and has at least one level.
C14_AtLeastOneLevel ==
    status = "ok" => (Len(m_geom) = m_nlevels /\ m_nlevels >= 1)

C16_MissingSubValueFails ==
    LET c == last.pre_coeff
        missing ==
            \/ c.eq_type = general_eq
                 /\ ~(c.alpha_set /\ c.a_set /\ c.beta_set /\ c.b_set)
            \/ c.eq_type = gravity_eq /\ ~c.b_set
    IN  (last.op \in RunOps /\ missing) =>
            /\ ~last.accepted
            /\ status # "ok"
            /\ last.invoked = "none"
            /\ last.pre_handle = 0 => (kernel.form = "none"
                                         /\ kernel.ran = "none")

C16_Witness ==
    /\ last.op \in RunOps
    /\ last.pre_handle = 0
    /\ last.pre_bc.initilized
    /\ last.pre_coeff.eq_type = general_eq
    /\ last.pre_coeff.alpha_set
    /\ last.pre_coeff.beta_set
    /\ last.pre_coeff.b_set
    /\ ~last.pre_coeff.a_set
    /\ status = "aborted"
    /\ kernel.form = "none"

\* C17: a solve or compute_residual that fails a configuration check fails
\* before the solver handle and the boundary register are constructed: no
\* failing call leaves the handle set.
C17_FailFast ==
    (last.op \in RunOps /\ ~last.accepted /\ last.pre_handle = 0) =>
        /\ ~last.built
        /\ m_mgt_solver = 0
        /\ m_bndry = 0

\* C18: gatherParticles copies the particle at src index inds[i] to dst
\* index i, scatterParticles the particle at src index i to dst index
\* inds[i]; for a permutation inds, gatherParticles(tmp, src, np, inds)
\* followed by scatterParticles(dst, tmp, np, inds) leaves dst[k] = src[k]
\* for all k < np and src as it was.
C18_GatherScatterRoundTrip ==
    LET IsPermutation(inds, np) ==
            /\ Len(inds) = np
            /\ {inds[i] : i \in 1..np} = 0..(np - 1)
    IN
    /\ plast.op = "gatherParticles" =>
           /\ \A i \in 0..(plast.n - 1) :
                  ParticleAt(tile.tmp, i)
                      = ParticleAt(plast.pre.src, plast.inds[i + 1])
           /\ tile.src = plast.pre.src
    /\ (plast.op = "scatterParticles" /\ IsPermutation(plast.inds, plast.n)) =>
           /\ \A i \in 0..(plast.n - 1) :
                  ParticleAt(tile.dst, plast.inds[i + 1])
                      = ParticleAt(plast.pre.tmp, i)
           /\ tile.tmp = plast.pre.tmp
           /\ tile.src = plast.pre.src
    /\ (/\ plast.op = "scatterParticles"
        /\ plast.prev_op = "gatherParticles"
        /\ plast.prev_n = plast.n
        /\ plast.prev_inds = plast.inds
        /\ IsPermutation(plast.inds, plast.n)) =>
           \A k \in 0..(plast.n - 1) :
               ParticleAt(tile.dst, k) = ParticleAt(tile.src, k)

C18_Witness ==
    /\ plast.op = "scatterParticles"
    /\ plast.prev_op = "gatherParticles"
    /\ plast.prev_inds = <<1, 2, 0>>
    /\ plast.inds = <<1, 2, 0>>
    /\ plast.n = 3
    /\ \A k \in 0..2 : ParticleAt(tile.dst, k) = ParticleAt(tile.src, k)

\* C19: filterParticles(dst, src, mask, src_start, dst_start, n) with mask
\* in {0,1}, n >= 1 and the ranges inside the tiles copies each selected
\* src[src_start+i] to dst[dst_start+k], k the number of selected j < i,
\* copies no unselected particle, leaves the rest of dst unchanged and
\* returns the number of selected particles.
C19_FilterPacks ==
    LET m == plast.mask
        n == plast.n
        CountBefore(mask, i) == Cardinality({j \in 1..i : mask[j] = 1})
        total == CountBefore(m, n)
    IN  (/\ plast.op \in FilterOps
         /\ n >= 1
         /\ \A j \in 1..n : m[j] \in {0, 1}
         /\ plast.src_start + n <= numParticles(plast.pre.src)
         /\ plast.dst_start + total <= numParticles(plast.pre.dst)) =>
            /\ plast.ub = "none"
            /\ pstage = "done"
            /\ \A i \in 0..(n - 1) :
                   m[i + 1] = 1 =>
                       ParticleAt(tile.dst,
                                  plast.dst_start + CountBefore(m, i))
                           = ParticleAt(plast.pre.src, plast.src_start + i)
            /\ {c.i : c \in plast.calls} = {i \in 0..(n - 1) : m[i + 1] = 1}
            /\ \A k \in 0..(numParticles(tile.dst) - 1) :
                   (k < plast.dst_start \/ k >= plast.dst_start + total) =>
                       ParticleAt(tile.dst, k) = ParticleAt(plast.pre.dst, k)
            /\ numParticles(tile.dst) = numParticles(plast.pre.dst)
            /\ plast.ret = total
            /\ tile.src = plast.pre.src

C19_Witness ==
    /\ plast.op = "filterParticles_mask"
    /\ plast.mask = <<0, 1, 1>>
    /\ plast.src_start = 0
    /\ plast.dst_start = 1
    /\ plast.ret = 2
    /\ plast.ub = "none"
    /\ ParticleAt(tile.dst, 1) = ParticleAt(tile.src, 1)
    /\ ParticleAt(tile.dst, 2) = ParticleAt(tile.src, 2)

\* C20: filterAndTransformParticles(dst, src, mask or predicate, f,
\* src_start, dst_start) passes, for every src_start >= 0, each selected
\* particle at src index src_start+i to f with the destination index
\* dst_start + (number of selected particles before it), and accesses no
\* element of src, mask or offsets past its end.
C20_TransformFromAnyStart ==
    LET m == plast.mask
        n == plast.n
        CountBefore(mask, i) == Cardinality({j \in 1..i : mask[j] = 1})
    IN  (/\ plast.op \in TransformOps
         /\ n >= 1
         /\ \A j \in 1..n : m[j] \in {0, 1}) =>
            /\ plast.ub = "none"
            /\ plast.calls =
                   {[i |-> i, src_i |-> plast.src_start + i,
                     dst_i |-> plast.dst_start + CountBefore(m, i)] :
                        i \in {j \in 0..(n - 1) : m[j + 1] = 1}}

\* C21: the boundary derivation run at the first solve or compute_residual
\* is the one of the set_bc overload that was called (codes only: homogeneous
\* values; codes + fine: from the fine field; codes + coarse + fine: from the
\* coarse register and the fine field), and it runs once per instance.
C21_BoundaryDerivation ==
    /\ nbuilt <= 1
    /\ nbuilt = 0 => kernel.bndry = "none"
    /\ nbuilt = 1 =>
           /\ m_bc = Boundary(1, 0, 0) => kernel.bndry = "homog"
           /\ m_bc = Boundary(1, 0, 1) => kernel.bndry = "fine"
           /\ m_bc = Boundary(1, 1, 1) => kernel.bndry = "crse_fine"
           /\ kernel.bndry \in {"homog", "fine", "crse_fine"}
    /\ (last.op \in RunOps /\ last.built) => m_bc = last.pre_bc

C21_Witness ==
    /\ last.op \in RunOps
    /\ last.accepted
    /\ nbuilt = 1
    /\ m_bc = Boundary(1, 0, 1)
    /\ kernel.bndry = "fine"

\* C22: an accepted solve or compute_residual hands the kernel one
\* coefficient form, the one of the variant tag (constant-gravity; gravity
\* with the stored B; ABecLaplacian with the stored alpha, A, beta, B), with
\* the values the setters recorded.
C22_CoefficientForm ==
    (last.op \in RunOps /\ last.accepted) =>
        LET c == last.pre_coeff
        IN  /\ m_coeff = c
            /\ c.eq_type \in {const_gravity_eq, gravity_eq, general_eq}
            /\ c.eq_type = const_gravity_eq =>
                   /\ kernel.form = "const_gravity"
                   /\ kernel.b = <<0, 0>>
            /\ c.eq_type = gravity_eq =>
                   /\ kernel.form = "gravity"
                   /\ kernel.b = c.b
            /\ c.eq_type = general_eq =>
                   /\ kernel.form = "abeclap"
                   /\ kernel.alpha = c.alpha
                   /\ kernel.a = c.a
                   /\ kernel.beta = c.beta
                   /\ kernel.b = c.b
            /\ c.eq_type # general_eq =>
                   (kernel.alpha = 0 /\ kernel.a = 0 /\ kernel.beta = 0)

C22_Witness ==
    /\ last.op \in RunOps
    /\ last.accepted
    /\ last.pre_coeff.eq_type = gravity_eq
    /\ kernel.form = "gravity"
    /\ kernel.b = m_coeff.b
    /\ m_coeff.b[1] = m_nlevels

\* C23: an accepted set_alpha, set_acoef, set_beta or set_bcoef sets the tag
\* to the general variant and its own sub-value and flag, and leaves the
\* other three sub-values and flags, the boundary descriptor, the geometry,
\* the ratio and the solver handle unchanged; an accepted set_bc changes only
\* the boundary descriptor.
C23_SetterFrame ==
    [][
        /\ (last'.op \in AlphaOps /\ last'.accepted) =>
               /\ m_coeff' = [m_coeff EXCEPT !.eq_type = general_eq,
                                             !.alpha_set = TRUE,
                                             !.alpha = m_coeff'.alpha]
               /\ UNCHANGED <<m_bc, config, engine>>
        /\ (last'.op \in AcoefOps /\ last'.accepted) =>
               /\ m_coeff' = [m_coeff EXCEPT !.eq_type = general_eq,
                                             !.a_set = TRUE,
                                             !.a = m_coeff'.a]
               /\ UNCHANGED <<m_bc, config, engine>>
        /\ (last'.op \in BetaOps /\ last'.accepted) =>
               /\ m_coeff' = [m_coeff EXCEPT !.eq_type = general_eq,
                                             !.beta_set = TRUE,
                                             !.beta = m_coeff'.beta]
               /\ UNCHANGED <<m_bc, config, engine>>
        /\ (last'.op \in BcoefOps /\ last'.accepted) =>
               /\ m_coeff' = [m_coeff EXCEPT !.eq_type = general_eq,
                                             !.b_set = TRUE,
                                             !.b = m_coeff'.b]
               /\ UNCHANGED <<m_bc, config, engine>>
        /\ (last'.op \in SetBcOps /\ last'.accepted) =>
               /\ m_bc'.initilized
               /\ UNCHANGED <<m_coeff, config, engine>>
      ]_vars

C23_Witness ==
    /\ last.op = "set_beta"
    /\ last.accepted
    /\ last.pre_coeff.a_set
    /\ ~last.pre_coeff.alpha_set
    /\ m_coeff = [last.pre_coeff EXCEPT !.beta_set = TRUE,
                                        !.beta = m_coeff.beta]
    /\ m_coeff.beta # 0
    /\ m_bc = last.pre_bc

\* C24 as stated: every coefficient setter is accepted exactly when the tag
\* is Uninitialized or the setter's own variant and the sub-value it sets is
\* not set yet; set_const_gravity_coeffs called while the tag is already the
\* constant variant is accepted and leaves the state unchanged.
C24_AcceptedIffCompatible ==
    LET c == last.pre_coeff
        own == IF last.op = "set_const_gravity_coeffs" THEN const_gravity_eq
               ELSE IF last.op \in GravityOps THEN gravity_eq
               ELSE general_eq
        unset == IF last.op = "set_const_gravity_coeffs" THEN TRUE
                 ELSE IF last.op \in GravityOps \cup BcoefOps THEN ~c.b_set
                 ELSE IF last.op \in AlphaOps THEN ~c.alpha_set
                 ELSE IF last.op \in AcoefOps THEN ~c.a_set
                 ELSE ~c.beta_set
    IN  last.op \in GravityOps \cup GeneralOps =>
            /\ last.accepted <=> (c.eq_type \in {invalid_eq, own} /\ unset)
            /\ (last.op = "set_const_gravity_coeffs"
                    /\ c.eq_type = const_gravity_eq)
                   => (last.accepted /\ m_coeff = c)

\* C24 amended: a gravity setter is accepted only when the tag is
\* Uninitialized, a general setter only when the tag is Uninitialized or
\* general and its sub-value is not set; the setters without a level or size
\* check (set_const_gravity_coeffs, set_alpha, set_beta) are accepted exactly
\* then, and set_const_gravity_coeffs on the constant variant is rejected.
C24_AcceptedIffCodeChecks ==
    LET c == last.pre_coeff
        tag_ok == IF last.op \in GravityOps THEN c.eq_type = invalid_eq
                  ELSE c.eq_type \in {invalid_eq, general_eq}
        unset == IF last.op \in GravityOps THEN TRUE
                 ELSE IF last.op \in BcoefOps THEN ~c.b_set
                 ELSE IF last.op \in AlphaOps THEN ~c.alpha_set
                 ELSE IF last.op \in AcoefOps THEN ~c.a_set
                 ELSE ~c.beta_set
    IN  last.op \in GravityOps \cup GeneralOps =>
            /\ last.accepted => (tag_ok /\ unset)
            /\ last.op \in {"set_const_gravity_coeffs", "set_alpha", "set_beta"}
                   => (last.accepted <=> (tag_ok /\ unset))
            /\ ~last.accepted => (m_coeff = c /\ status # "ok")
            /\ (last.op = "set_const_gravity_coeffs"
                    /\ c.eq_type = const_gravity_eq) => ~last.accepted

C24_Witness ==
    /\ last.op = "set_const_gravity_coeffs"
    /\ last.pre_coeff.eq_type = const_gravity_eq
    /\ ~last.accepted
    /\ status = "aborted"
    /\ m_coeff = last.pre_coeff

\* C25: the single-level overloads set_gravity_coeffs(PArray),
\* set_acoef(MultiFab), set_bcoef(MultiFab*) and set_bcoef(PArray) are
\* accepted only on an orchestrator with one level, the per-level overloads
\* set_gravity_coeffs(Array), set_acoef(PArray) and set_bcoef(Array) only
\* when as many levels are supplied as the orchestrator has; a stored
\* coefficient has exactly m_nlevels entries.
C25_LevelCounts ==
    /\ (last.accepted
            /\ last.op \in {"set_gravity_coeffs_PArray", "set_acoef_MultiFab",
                            "set_bcoef_ptr", "set_bcoef_PArray"})
           => m_nlevels = 1
    /\ (last.accepted
            /\ last.op \in {"set_gravity_coeffs_Array", "set_bcoef_Array"})
           => m_coeff.b[1] = m_nlevels
    /\ (last.accepted /\ last.op = "set_acoef_PArray")
           => m_coeff.a = m_nlevels
    /\ m_coeff.a_set => m_coeff.a = m_nlevels
    /\ m_coeff.b_set => m_coeff.b[1] = m_nlevels
    /\ (last.op \in RunOps /\ last.built) =>
           /\ kernel.form = "abeclap" => kernel.a = m_nlevels
           /\ kernel.form \in {"abeclap", "gravity"} => kernel.b[1] = m_nlevels

C25_Witness ==
    /\ last.op = "set_acoef_PArray"
    /\ last.accepted
    /\ m_nlevels = 2
    /\ m_coeff.a = 2
    /\ m_coeff.b_set
    /\ m_coeff.b[1] = 2

\* C26: once a solve or compute_residual has completed, every later set_bc,
\* coefficient setter, solve and compute_residual is rejected, whichever
\* variant was configured, and changes nothing.
C26_TerminalAfterRun ==
    /\ (last.pre_ran # "none"
            /\ last.op \in SetBcOps \cup GravityOps \cup GeneralOps \cup RunOps) =>
           /\ ~last.accepted
           /\ status = "aborted"
           /\ m_bc = last.pre_bc
           /\ m_coeff = last.pre_coeff
           /\ m_mgt_solver = last.pre_handle
           /\ kernel.ran = last.pre_ran
    /\ (last.pre_ran # "none" /\ last.op \in GradOps /\ last.ub = "none"
            /\ (last.op = "get_grad_phi_PArray" => m_nlevels = 1)) =>
           /\ last.accepted
           /\ status = "ok"

C26_Witness ==
    /\ last.pre_ran = "compute_residual"
    /\ last.op = "set_beta"
    /\ last.pre_coeff.eq_type = general_eq
    /\ status = "aborted"

\* C27: solve and compute_residual never read phi, rhs or res at an index
\* that is not below the number of fields the caller supplied.
C27_FieldsInRange ==
    (last.op \in RunOps /\ m_nlevels > 0) => last.ub # "oob"

\* C28: the variant tag and the four set flags agree: no flag is set under
\* Uninitialized or ConstantCoefficient, only the B flag under
\* FieldCoefficient, at least one flag under GeneralizedCoefficient; and a
\* tag that has left Uninitialized never changes again.
C28_TagFlagsConsistent ==
    LET flags == {f \in {"alpha", "a", "beta", "b"} :
                     \/ f = "alpha" /\ m_coeff.alpha_set
                     \/ f = "a" /\ m_coeff.a_set
                     \/ f = "beta" /\ m_coeff.beta_set
                     \/ f = "b" /\ m_coeff.b_set}
    IN  /\ m_coeff.eq_type \in {invalid_eq, const_gravity_eq} => flags = {}
        /\ m_coeff.eq_type = gravity_eq => flags = {"b"}
        /\ m_coeff.eq_type = general_eq => flags # {}
        /\ (flags \cap {"alpha", "a", "beta"} # {}) =>
               m_coeff.eq_type = general_eq
        /\ last.pre_coeff.eq_type # invalid_eq =>
               m_coeff.eq_type = last.pre_coeff.eq_type

C28_Witness ==
    /\ m_coeff.eq_type = general_eq
    /\ m_coeff.beta_set
    /\ ~m_coeff.alpha_set
    /\ ~m_coeff.a_set
    /\ ~m_coeff.b_set
    /\ last.op \in GravityOps
    /\ ~last.accepted
    /\ last.pre_coeff = m_coeff

\* C29: constructing a BLBTer pushes exactly one entry, which carries the
\* scope string and the object's line_file; its destructor removes at most
\* one entry, the top one, and only when the top entry's line_file equals
\* its own; when every destructor so far was that of the object constructed
\* last among those alive, the stack after a destructor is the stack before
\* the matching constructor; an empty stack is never popped.
C29_ScopeStack ==
    /\ bt_last.op = "BLBTer" =>
           /\ Len(bt_stack) = Len(bt_last.pre) + 1
           /\ SubSeq(bt_stack, 1, Len(bt_last.pre)) = bt_last.pre
           /\ bt_stack[Len(bt_stack)][2] = bt_last.line_file
           /\ bt_stack[Len(bt_stack)][1][4] = bt_last.s
    /\ bt_last.op = "~BLBTer" =>
           /\ \/ bt_stack = bt_last.pre
              \/ /\ bt_last.pre # <<>>
                 /\ bt_stack = SubSeq(bt_last.pre, 1, Len(bt_last.pre) - 1)
                 /\ bt_last.pre[Len(bt_last.pre)][2] = bt_last.line_file
           /\ bt_last.nested => bt_stack = bt_last.at_ctor
    /\ bt_status = "on" => Len(bt_live) <= Len(bt_stack)

C29_Witness ==
    /\ bt_last.op = "~BLBTer"
    /\ bt_last.nested
    /\ Len(bt_last.pre) = 2
    /\ Len(bt_stack) = 1
    /\ Len(bt_live) = 1
    /\ bt_stack = bt_last.at_ctor

\* C30: filterParticles and filterAndTransformParticles called on zero
\* particles return 0, copy nothing and read no element of mask or of the
\* offsets.
C30_ZeroParticles ==
    (plast.op \in FilterOps \cup TransformOps /\ plast.n = 0) =>
        /\ plast.ub = "none"
        /\ plast.ret = 0
        /\ pstage = "done"
        /\ tile = plast.pre

=============================================================================
